---- MODULE Spec2Model ----
(***************************************************************************)
(* A model of the mil lowering pass (src/src/parser/mel_expr.rs): the      *)
(* MemoryMap, to_mel_expr and count_insts, followed by the encoder and the *)
(* execution engine that consume the lowered expression.  The encoder and  *)
(* the engine are not among the source files; they follow spec.md 4.4/4.5. *)
(***************************************************************************)
EXTENDS Integers, Sequences, FiniteSets, TLC

VARIABLES
    memory_store,   \* MemoryMap.memory_store: VarId -> HeapPos
    expr,           \* the UnrolledExpr given to the last to_mel_expr call
    pre,            \* memory_store as it was when that call started
    out,            \* the MelExpr that call returned
    status,         \* "new" (MemoryMap::new), "ok" (returned), "panicked"
    phase,          \* "lowering", "running", "Halted", "Failed"
    prog,           \* the flattened instruction sequence
    pc,             \* program counter: 0-based index into prog
    stack,          \* operand stack
    heap,           \* heap: the slots written so far (every other slot reads 0)
    loops,          \* the repeats being executed, innermost last
    fault,          \* the fault of a Failed run
    trace,          \* history: the instructions executed so far, in order
    counted,        \* <<count_insts(out)>> once it has been called, else <<>>
    overflow_checks \* the build: TRUE when integer overflow panics (rustc -C
                    \* overflow-checks, the default of a debug build), FALSE
                    \* when it wraps (the default of a release build)

vars == <<memory_store, expr, pre, out, status, phase, prog, pc, stack, heap,
          loops, fault, trace, counted, overflow_checks>>

lowerVars == <<memory_store, expr, pre, out, status>>
execVars == <<prog, pc, stack, heap, loops, fault, trace>>

----------------------------------------------------------------------------
(* Types (src/src/types.rs) *)

\* HeapPos = u16, and the u16 operands of Bez/Bnz/Jmp/Loop/Hash/Sigeok.
U16Mod == 65536

\* A variant of AsHeapPos: the next free slot instead of the identifier's low bits.
AsHeapPosNextFree(var_id) == Cardinality(DOMAIN memory_store) % 65536

\* `var_id as HeapPos`: an i32 cast to u16 keeps the low 16 bits.
AsHeapPos(var_id) == var_id % U16Mod

\* what a u16 computation is once an addition in it has panicked
Overflowed == -1

\* u16 addition as count_insts performs it: a sum that does not fit 16 bits
\* panics ("attempt to add with overflow") in a build with overflow checks and
\* wraps at 2^16 in a build without; an operand that panicked never returned.
U16Add(a, b) ==
    IF a = Overflowed \/ b = Overflowed THEN Overflowed
    ELSE IF a + b < U16Mod THEN a + b
    ELSE IF overflow_checks THEN Overflowed
    ELSE (a + b) % U16Mod

\* Value::Int(U256) and Value::Bytes(Vec<u8>)
IntV(n) == [kind |-> "Int", n |-> n, b |-> <<>>]
BytesV(b) == [kind |-> "Bytes", n |-> 0, b |-> b]

\* UnrolledExpr
UValue(v) == [tag |-> "Value", v |-> v]
UVar(id) == [tag |-> "Var", id |-> id]
UBuiltIn(op, args) == [tag |-> "BuiltIn", op |-> op, n |-> 0, args |-> args]
UBuiltInImm(op, n) == [tag |-> "BuiltIn", op |-> op, n |-> n, args |-> <<>>]
USet(id, body) == [tag |-> "Set", id |-> id, body |-> body]
UIf(p, t, f) == [tag |-> "If", pred |-> p, on_true |-> t, on_false |-> f]
ULet(binds, exprs) == [tag |-> "Let", binds |-> binds, exprs |-> exprs]
ULoop(n, body) == [tag |-> "Loop", n |-> n, body |-> body]
UHash(n, body) == [tag |-> "Hash", n |-> n, body |-> body]
USigeok(n, e1, e2, e3) == [tag |-> "Sigeok", n |-> n, e1 |-> e1, e2 |-> e2, e3 |-> e3]

\* MelExpr; BuiltIn(Box<ExpandedBuiltIn<MelExpr>>) keeps the operator, its u16
\* operand (Bez, Bnz, Jmp, Loop, Load, Store) and its operand expressions.
MValue(v) == [tag |-> "Value", v |-> v]
MBuiltIn(op, args) == [tag |-> "BuiltIn", op |-> op, n |-> 0, args |-> args]
MBuiltInImm(op, n) == [tag |-> "BuiltIn", op |-> op, n |-> n, args |-> <<>>]
MBuiltInLoop(n, e) == [tag |-> "BuiltIn", op |-> "Loop", n |-> n, args |-> <<e>>]
MSeq(v) == [tag |-> "Seq", items |-> v]
MLoop(n, e) == [tag |-> "Loop", n |-> n, body |-> e]
MHash(n, e) == [tag |-> "Hash", n |-> n, body |-> e]
MSigeok(n, e1, e2, e3) == [tag |-> "Sigeok", n |-> n, e1 |-> e1, e2 |-> e2, e3 |-> e3]

\* ExpandedBuiltIn variants by shape
UnaryOps == {"Not", "Vlen"}
BinOps == {"Add", "Sub", "Mul", "Div", "Rem", "And", "Or", "Xor",
           "Vpush", "Vappend", "Vref"}
ImmOps == {"Bez", "Bnz", "Jmp", "Load", "Store"}

----------------------------------------------------------------------------
(* count_insts (src/src/parser/mel_expr.rs:122-157) *)

RECURSIVE count_insts(_)
RECURSIVE SumCounts(_, _)

\* v.iter().map(count_insts).reduce(|a,b| a+b).unwrap_or(0), on the first k items
SumCounts(v, k) ==
    IF k = 0 THEN 0
    ELSE IF k = 1 THEN count_insts(v[1])
    ELSE U16Add(SumCounts(v, k - 1), count_insts(v[k]))

\* A variant of CountBuiltIn: Vslice counted like a two-operand operator.
CountBuiltInShortVslice(e) ==
    IF e.op \in ImmOps \/ e.op = "Vempty" THEN 1
    ELSE IF e.op \in UnaryOps \/ e.op = "Loop" THEN U16Add(1, count_insts(e.args[1]))
    ELSE U16Add(U16Add(1, count_insts(e.args[1])), count_insts(e.args[2]))

CountBuiltIn(e) ==
    IF e.op \in ImmOps \/ e.op = "Vempty" THEN 1
    ELSE IF e.op \in UnaryOps \/ e.op = "Loop" THEN U16Add(1, count_insts(e.args[1]))
    ELSE IF e.op \in BinOps
         THEN U16Add(U16Add(1, count_insts(e.args[1])), count_insts(e.args[2]))
    ELSE \* Vslice
         U16Add(U16Add(U16Add(1, count_insts(e.args[1])), count_insts(e.args[2])),
                count_insts(e.args[3]))

count_insts(e) ==
    CASE e.tag = "Seq" -> SumCounts(e.items, Len(e.items))
      [] e.tag = "Loop" -> U16Add(1, count_insts(e.body))
      [] e.tag = "Hash" -> U16Add(1, count_insts(e.body))
      [] e.tag = "Sigeok" ->
            U16Add(U16Add(U16Add(1, count_insts(e.e1)), count_insts(e.e2)),
                   count_insts(e.e3))
      [] e.tag = "Value" -> 1
      [] e.tag = "BuiltIn" -> CountBuiltIn(e)

----------------------------------------------------------------------------
(* MemoryMap (src/src/parser/mel_expr.rs:4-119) *)

\* MemoryMap::new(): HashMap::new()
EmptyMap == [v \in {} |-> 0]

\* HashMap::insert(k, v)
Insert(m, k, v) == [x \in (DOMAIN m) \cup {k} |-> IF x = k THEN v ELSE m[x]]

\* The outcomes of one to_mel_expr call: it returns a MelExpr, or it panics
\* (expect on a missing key, unreachable!()) with the map as it then is.
NoExpr == [tag |-> "None"]
Returned(m, e) == [mem |-> m, out |-> e, ok |-> TRUE]
Panicked(m) == [mem |-> m, out |-> NoExpr, ok |-> FALSE]

RECURSIVE to_mel_expr(_, _)
RECURSIVE LowerBinds(_, _, _, _)
RECURSIVE LowerExprs(_, _, _, _)

\* lines 26-29
LowerValue(m, e) ==
    IF e.v.kind = "Int" THEN Returned(m, MValue(IntV(e.v.n)))
    ELSE Returned(m, MValue(BytesV(e.v.b)))

\* lines 31-35: memory_store.get(v).expect(..), then Load(*loc)
LowerVar(m, e) ==
    IF e.id \in DOMAIN m THEN Returned(m, MBuiltInImm("Load", m[e.id]))
    ELSE Panicked(m)

\* lines 14-21
binop(m, e1, e2, op) ==
    LET r1 == to_mel_expr(m, e1) IN
    IF ~r1.ok THEN Panicked(r1.mem)
    ELSE LET r2 == to_mel_expr(r1.mem, e2) IN
         IF ~r2.ok THEN Panicked(r2.mem)
         ELSE Returned(r2.mem, MBuiltIn(op, <<r1.out, r2.out>>))

\* lines 36-56: every other variant of ExpandedBuiltIn reaches unreachable!()
LowerBuiltIn(m, e) ==
    IF e.op = "Vempty" THEN Returned(m, MBuiltIn("Vempty", <<>>))
    ELSE IF e.op \in UnaryOps
         THEN LET r == to_mel_expr(m, e.args[1]) IN
              IF ~r.ok THEN Panicked(r.mem)
              ELSE Returned(r.mem, MBuiltIn(e.op, <<r.out>>))
    ELSE IF e.op \in BinOps THEN binop(m, e.args[1], e.args[2], e.op)
    ELSE Panicked(m)

\* A variant of LowerSet: a variable without a slot is given one.
LowerSetAllocating(m, e) ==
    LET r == to_mel_expr(m, e.body)
        m2 == IF e.id \in DOMAIN r.mem THEN r.mem ELSE Insert(r.mem, e.id, AsHeapPos(e.id))
    IN  IF ~r.ok THEN Panicked(r.mem)
        ELSE Returned(m2, MSeq(<<r.out, MBuiltInImm("Store", m2[e.id])>>))

\* lines 57-66: the body is lowered first, then the variable is looked up
LowerSet(m, e) ==
    LET r == to_mel_expr(m, e.body) IN
    IF ~r.ok THEN Panicked(r.mem)
    ELSE IF e.id \notin DOMAIN r.mem THEN Panicked(r.mem)
    ELSE Returned(r.mem, MSeq(<<r.out, MBuiltInImm("Store", r.mem[e.id])>>))

\* A variant of BezOperand: the trailing jump is not skipped.
BezOperandNoSkip(mel_true) == count_insts(mel_true)

\* line 73: Bez((count_insts(&mel_true) + 1) as u16)
BezOperand(mel_true) == U16Add(count_insts(mel_true), 1)

\* line 75: Jmp(count_insts(&mel_false) as u16)
JmpOperand(mel_false) == count_insts(mel_false)

\* A variant of IfSeq: the branches change places.
IfSeqSwapped(mel_pred, mel_true, mel_false) ==
    MSeq(<<mel_pred,
           MBuiltInImm("Bez", BezOperand(mel_false)),
           mel_false,
           MBuiltInImm("Jmp", JmpOperand(mel_true)),
           mel_true>>)

\* lines 71-77: the vec! of the lowered `if`
IfSeq(mel_pred, mel_true, mel_false) ==
    MSeq(<<mel_pred,
           MBuiltInImm("Bez", BezOperand(mel_true)),
           mel_true,
           MBuiltInImm("Jmp", JmpOperand(mel_false)),
           mel_false>>)

\* lines 67-78: on_true, then on_false, then (inside the vec!) pred and the
\* two operands, whose additions can panic
LowerIf(m, e) ==
    LET rt == to_mel_expr(m, e.on_true) IN
    IF ~rt.ok THEN Panicked(rt.mem)
    ELSE LET rf == to_mel_expr(rt.mem, e.on_false) IN
         IF ~rf.ok THEN Panicked(rf.mem)
         ELSE LET rp == to_mel_expr(rf.mem, e.pred) IN
              IF ~rp.ok THEN Panicked(rp.mem)
              ELSE IF BezOperand(rt.out) = Overflowed \/ JmpOperand(rf.out) = Overflowed
                   THEN Panicked(rp.mem)
              ELSE Returned(rp.mem, IfSeq(rp.out, rt.out, rf.out))

\* A variant of LowerBind: the slot is inserted after the binding expression
\* has been lowered.
LowerBindLate(m, bind, mel_binds) ==
    LET var_id == bind[1]
        loc == AsHeapPos(var_id)
        r == to_mel_expr(m, bind[2])
    IN  IF ~r.ok THEN [mem |-> r.mem, out |-> mel_binds, ok |-> FALSE]
        ELSE [mem |-> Insert(r.mem, var_id, loc),
              out |-> mel_binds \o <<r.out, MBuiltInImm("Store", loc)>>,
              ok |-> TRUE]

\* lines 84-102: one step of binds.into_iter().for_each: the slot is inserted,
\* then the binding expression is lowered, then both are pushed
LowerBind(m, bind, mel_binds) ==
    LET var_id == bind[1]
        loc == AsHeapPos(var_id)
        r == to_mel_expr(Insert(m, var_id, loc), bind[2])
    IN  IF ~r.ok THEN [mem |-> r.mem, out |-> mel_binds, ok |-> FALSE]
        ELSE [mem |-> r.mem,
              out |-> mel_binds \o <<r.out, MBuiltInImm("Store", loc)>>,
              ok |-> TRUE]

\* lines 84-102: the bindings from the i-th on, left to right
LowerBinds(m, binds, i, mel_binds) ==
    IF i > Len(binds) THEN [mem |-> m, out |-> mel_binds, ok |-> TRUE]
    ELSE LET r == LowerBind(m, binds[i], mel_binds) IN
         IF ~r.ok THEN r ELSE LowerBinds(r.mem, binds, i + 1, r.out)

\* lines 105-107: mel_binds.extend(exprs.into_iter().map(..))
LowerExprs(m, exprs, i, mel_binds) ==
    IF i > Len(exprs) THEN [mem |-> m, out |-> mel_binds, ok |-> TRUE]
    ELSE LET r == to_mel_expr(m, exprs[i]) IN
         IF ~r.ok THEN [mem |-> r.mem, out |-> mel_binds, ok |-> FALSE]
         ELSE LowerExprs(r.mem, exprs, i + 1, Append(mel_binds, r.out))

\* lines 79-110
LowerLet(m, e) ==
    LET rb == LowerBinds(m, e.binds, 1, <<>>) IN
    IF ~rb.ok THEN Panicked(rb.mem)
    ELSE LET rx == LowerExprs(rb.mem, e.exprs, 1, rb.out) IN
         IF ~rx.ok THEN Panicked(rx.mem)
         ELSE Returned(rx.mem, MSeq(rx.out))

\* A variant of LowerLoop: the body is unrolled n times.
LowerLoopUnrolled(m, e) ==
    LET r == to_mel_expr(m, e.body) IN
    IF ~r.ok THEN Panicked(r.mem)
    ELSE Returned(r.mem, MSeq([i \in 1..e.n |-> r.out]))

\* A variant of LowerLoop: one iteration too many.
LowerLoopOneMore(m, e) ==
    LET r == to_mel_expr(m, e.body) IN
    IF ~r.ok THEN Panicked(r.mem) ELSE Returned(r.mem, MLoop(e.n + 1, r.out))

\* line 111
LowerLoop(m, e) ==
    LET r == to_mel_expr(m, e.body) IN
    IF ~r.ok THEN Panicked(r.mem) ELSE Returned(r.mem, MLoop(e.n, r.out))

\* line 112
LowerHash(m, e) ==
    LET r == to_mel_expr(m, e.body) IN
    IF ~r.ok THEN Panicked(r.mem) ELSE Returned(r.mem, MHash(e.n, r.out))

\* lines 113-116: the arguments of MelExpr::Sigeok(..) are evaluated left to right
LowerSigeok(m, e) ==
    LET r1 == to_mel_expr(m, e.e1) IN
    IF ~r1.ok THEN Panicked(r1.mem)
    ELSE LET r2 == to_mel_expr(r1.mem, e.e2) IN
         IF ~r2.ok THEN Panicked(r2.mem)
         ELSE LET r3 == to_mel_expr(r2.mem, e.e3) IN
              IF ~r3.ok THEN Panicked(r3.mem)
              ELSE Returned(r3.mem, MSigeok(e.n, r1.out, r2.out, r3.out))

\* lines 24-118
to_mel_expr(m, e) ==
    CASE e.tag = "Value" -> LowerValue(m, e)
      [] e.tag = "Var" -> LowerVar(m, e)
      [] e.tag = "BuiltIn" -> LowerBuiltIn(m, e)
      [] e.tag = "Set" -> LowerSet(m, e)
      [] e.tag = "If" -> LowerIf(m, e)
      [] e.tag = "Let" -> LowerLet(m, e)
      [] e.tag = "Loop" -> LowerLoop(m, e)
      [] e.tag = "Hash" -> LowerHash(m, e)
      [] e.tag = "Sigeok" -> LowerSigeok(m, e)

----------------------------------------------------------------------------
(* Encoder (spec.md 4.4): the flattened instruction sequence of a MelExpr.   *)
(* One instruction per leaf and per operator; an operator follows its        *)
(* operands, a repeat precedes its body and carries the body's length.       *)

Instr(op, n, len, v) == [op |-> op, n |-> n, len |-> len, v |-> v]

RECURSIVE Flatten(_)
RECURSIVE FlattenAll(_, _)

\* the concatenation of the flattened first k items of v
FlattenAll(v, k) ==
    IF k = 0 THEN <<>> ELSE FlattenAll(v, k - 1) \o Flatten(v[k])

FlattenBuiltIn(e) ==
    IF e.op = "Loop"
    THEN LET body == Flatten(e.args[1]) IN
         <<Instr("Loop", e.n, Len(body), IntV(0))>> \o body
    ELSE FlattenAll(e.args, Len(e.args)) \o <<Instr(e.op, e.n, 0, IntV(0))>>

Flatten(e) ==
    CASE e.tag = "Value" -> <<Instr("Push", 0, 0, e.v)>>
      [] e.tag = "BuiltIn" -> FlattenBuiltIn(e)
      [] e.tag = "Seq" -> FlattenAll(e.items, Len(e.items))
      [] e.tag = "Loop" ->
            LET body == Flatten(e.body) IN
            <<Instr("Loop", e.n, Len(body), IntV(0))>> \o body
      [] e.tag = "Hash" -> Flatten(e.body) \o <<Instr("Hash", e.n, 0, IntV(0))>>
      [] e.tag = "Sigeok" ->
            Flatten(e.e1) \o Flatten(e.e2) \o Flatten(e.e3)
                \o <<Instr("Sigeok", e.n, 0, IntV(0))>>

----------------------------------------------------------------------------
(* Execution engine (spec.md 4.5), for the instructions the programs of     *)
(* ExecExprs are made of: literals, add/div/rem, load/store, the branches,   *)
(* jump and repeat.                                                          *)

Zero == IntV(0)

\* heap[slot]: a zero-initialized heap
HeapAt(h, slot) == IF slot \in DOMAIN h THEN h[slot] ELSE Zero

Top(s) == s[Len(s)]
Pop(s, k) == SubSeq(s, 1, Len(s) - k)

\* What one instruction does to (pc, stack, heap, loops); fault "" is none.
\* A relative offset counts from the instruction following the jump (GLOSSARY).
Effect(i, at, s, h, l) ==
    LET Go(npc, ns, nh, nl) ==
            [pc |-> npc, stack |-> ns, heap |-> nh, loops |-> nl, fault |-> ""]
        Fail(f) == [pc |-> at, stack |-> s, heap |-> h, loops |-> l, fault |-> f]
    IN
    CASE i.op = "Push" -> Go(at + 1, Append(s, i.v), h, l)
      [] i.op = "Load" -> Go(at + 1, Append(s, HeapAt(h, i.n)), h, l)
      [] i.op = "Store" ->
            IF Len(s) < 1 THEN Fail("MalformedProgram")
            ELSE Go(at + 1, Pop(s, 1), Insert(h, i.n, Top(s)), l)
      [] i.op = "Add" ->
            IF Len(s) < 2 THEN Fail("MalformedProgram")
            ELSE Go(at + 1, Append(Pop(s, 2), IntV(s[Len(s) - 1].n + Top(s).n)), h, l)
      [] i.op \in {"Div", "Rem"} ->
            IF Len(s) < 2 THEN Fail("MalformedProgram")
            ELSE IF Top(s).n = 0 THEN Fail("DivisionByZero")
            ELSE Go(at + 1,
                    Append(Pop(s, 2),
                           IntV(IF i.op = "Div" THEN s[Len(s) - 1].n \div Top(s).n
                                ELSE s[Len(s) - 1].n % Top(s).n)),
                    h, l)
      [] i.op = "Bez" ->
            IF Len(s) < 1 THEN Fail("MalformedProgram")
            ELSE Go(IF Top(s) = Zero THEN at + 1 + i.n ELSE at + 1, Pop(s, 1), h, l)
      [] i.op = "Bnz" ->
            IF Len(s) < 1 THEN Fail("MalformedProgram")
            ELSE Go(IF Top(s) # Zero THEN at + 1 + i.n ELSE at + 1, Pop(s, 1), h, l)
      [] i.op = "Jmp" -> Go(at + 1 + i.n, s, h, l)
      [] i.op = "Loop" ->
            IF i.n = 0 \/ i.len = 0 THEN Go(at + 1 + i.len, s, h, l)
            ELSE Go(at + 1, s, h,
                    Append(l, [first |-> at + 1, last |-> at + i.len, left |-> i.n - 1]))
      [] OTHER -> Fail("Unsupported")

\* the end of the innermost repeat's body has been reached
AtLoopEnd == loops # <<>> /\ pc = Top(loops).last + 1

\* a program counter outside the instruction range, or outside the running repeat
OutOfRange(npc, l) ==
    \/ npc > Len(prog)
    \/ l # <<>> /\ (npc > Top(l).last + 1 \/ npc < Top(l).first)

----------------------------------------------------------------------------
(* Bounds and inputs *)

MaxBinds == 2
MaxBody == 2
MaxLoop == 2
MaxParam == 1
MaxSeq == 2
MaxSmall == 3
MaxFan == 16

SeqsUpTo(S, k) == UNION {[1..n -> S] : n \in 0..k}

\* VarIds are i32; 0 and 65536 differ by 2^16
VarIds == {0, 1, 65536}
Counts == 0..MaxLoop
Params == (0..MaxParam) \cup {U16Mod - 1}

V0 == UValue(IntV(0))
V1 == UValue(IntV(1))
V2 == UValue(IntV(2))
VBytes == UValue(BytesV(<<7>>))
EmptyLet == ULet(<<>>, <<>>)
Binder(v) == ULet(<<<<v, V0>>>>, <<>>)

Atoms == {V0, V1, VBytes} \cup {UVar(v) : v \in VarIds}
Kids == Atoms \cup {Binder(0), Binder(65536), EmptyLet}
OrderKids == {UVar(0), Binder(0)}
IfKids == {V0, UVar(0), Binder(0), USet(0, V1)}
BindKids == {<<0, V1>>, <<0, UVar(0)>>, <<65536, UVar(0)>>}
BodyKids == {UVar(0), USet(65536, V1)}

BuiltIns ==
    {UBuiltIn("Vempty", <<>>)}
    \cup {UBuiltIn(op, <<k>>) : op \in UnaryOps, k \in Kids}
    \cup {UBuiltIn(op, <<a, b>>) : op \in BinOps, a \in OrderKids, b \in OrderKids}
    \cup {UBuiltIn("Vslice", <<a, V0, V1>>) : a \in OrderKids \cup {VBytes}}
    \cup {UBuiltInImm("Load", 0), UBuiltInImm("Jmp", 1), UBuiltIn("Loop", <<V0>>)}

\* the expressions given to to_mel_expr
Exprs ==
    Atoms
    \cup BuiltIns
    \cup {USet(v, k) : v \in VarIds, k \in Kids}
    \cup {UIf(p, t, f) : p \in IfKids, t \in IfKids, f \in IfKids}
    \cup {ULet(b, x) : b \in SeqsUpTo(BindKids, MaxBinds), x \in SeqsUpTo(BodyKids, MaxBody)}
    \cup {ULoop(n, k) : n \in Counts, k \in Kids}
    \cup {UHash(n, k) : n \in Params, k \in Kids}
    \cup {USigeok(n, a, b, c) : n \in Params, a \in OrderKids, b \in OrderKids, c \in OrderKids}

\* the programs that are lowered, encoded and executed
DivZero == UBuiltIn("Div", <<V1, V0>>)
Preds == {V0, V1, V2, UVar(0), EmptyLet}
Branches ==
    {V1, USet(0, V0), USet(0, V1), USet(0, V2), EmptyLet, DivZero,
     UIf(V0, V1, V2), ULoop(MaxLoop, V1)}
Ifs == {UIf(p, t, f) : p \in Preds, t \in Branches, f \in Branches}
ExecExprs ==
    Ifs
    \cup {ULet(<<<<0, v>>>>, <<i>>) : v \in {V0, V1}, i \in Ifs}
    \cup {ULet(<<<<0, v>>>>, <<ULoop(n, i)>>) : v \in {V0, V1}, n \in Counts, i \in Ifs}

\* the lowered expressions given to count_insts: every variant of MelExpr and
\* of ExpandedBuiltIn<MelExpr>, nested twice
MelLeaves ==
    {MValue(IntV(1)), MValue(BytesV(<<7>>)), MBuiltIn("Vempty", <<>>),
     MBuiltInImm("Jmp", 1), MBuiltInImm("Bez", 2), MBuiltInImm("Bnz", 1),
     MBuiltInImm("Load", 0), MBuiltInImm("Store", U16Mod - 1)}
MelAtoms == {MValue(IntV(1)), MBuiltInImm("Jmp", 1)}

MelOver(K) ==
    {MBuiltIn(op, <<a>>) : op \in UnaryOps, a \in K}
    \cup {MBuiltIn(op, <<a, b>>) : op \in BinOps, a \in K, b \in K}
    \cup {MBuiltIn("Vslice", <<a, b, c>>) : a \in K, b \in K, c \in K}
    \cup {MBuiltInLoop(n, a) : n \in Counts, a \in K}
    \cup {MSeq(v) : v \in SeqsUpTo(K, MaxSeq)}
    \cup {MLoop(n, a) : n \in Counts, a \in K}
    \cup {MHash(n, a) : n \in Params, a \in K}
    \cup {MSigeok(n, a, b, c) : n \in Params, a \in K, b \in K, c \in K}

MelNested ==
    {MSeq(<<>>), MSeq(<<MValue(IntV(1)), MBuiltInImm("Store", 0)>>),
     MBuiltIn("Add", <<MValue(IntV(1)), MBuiltInImm("Load", 0)>>),
     MBuiltIn("Vslice", <<MValue(IntV(1)), MValue(IntV(1)), MValue(IntV(1))>>),
     MLoop(2, MValue(IntV(1))), MBuiltInLoop(2, MValue(IntV(1))),
     MSigeok(0, MValue(IntV(1)), MValue(IntV(1)), MValue(IntV(1)))}

MelExprs == MelLeaves \cup MelOver(MelAtoms) \cup MelOver(MelNested)

RECURSIVE Wide(_)

\* an expression of n instructions: n literals in the bodies of lets without
\* bindings, at most MaxFan to a body, shared out evenly so that the nesting
\* stays shallow
Wide(n) ==
    IF n = 0 THEN EmptyLet
    ELSE IF n = 1 THEN V1
    ELSE LET k == IF n < MaxFan THEN n ELSE MaxFan IN
         ULet(<<>>, [i \in 1..k |-> Wide((n + k - i) \div k)])

\* the expressions lowered and counted under SpecWide: `if`s with small
\* branches, and expressions with a branch or a body around 2^16 instructions
WideExprs ==
    {UIf(p, Wide(a), Wide(b)) : p \in {V0, V1}, a \in 0..MaxSmall, b \in 0..MaxSmall}
    \cup {UIf(V1, Wide(a), V1) : a \in {U16Mod - 2, U16Mod - 1}}
    \cup {UIf(V1, V1, Wide(U16Mod))}
    \cup {Wide(a) : a \in {U16Mod - 1, U16Mod}}

----------------------------------------------------------------------------
(* The state machine *)

\* the process before its first to_mel_expr call
Fresh ==
    /\ memory_store = EmptyMap
    /\ expr = NoExpr
    /\ pre = EmptyMap
    /\ out = NoExpr
    /\ status = "new"
    /\ phase = "lowering"
    /\ prog = <<>>
    /\ pc = 0
    /\ stack = <<>>
    /\ heap = EmptyMap
    /\ loops = <<>>
    /\ fault = ""
    /\ trace = <<>>
    /\ counted = <<>>

\* The expressions of Exprs, ExecExprs and MelExprs hold far fewer than 2^16
\* instructions: no addition overflows, the two builds behave alike, and one
\* stands for both.  InitWide below starts either build.
Init ==
    /\ Fresh
    /\ overflow_checks = FALSE

\* one call mem.to_mel_expr(e) (src/src/main.rs:62); a panic ends the process
Lower(e) ==
    /\ phase = "lowering"
    /\ status # "panicked"
    /\ LET r == to_mel_expr(memory_store, e) IN
        /\ memory_store' = r.mem
        /\ out' = r.out
        /\ status' = IF r.ok THEN "ok" ELSE "panicked"
    /\ expr' = e
    /\ pre' = memory_store
    /\ UNCHANGED <<phase, prog, pc, stack, heap, loops, fault, trace, counted,
                   overflow_checks>>

\* main.rs:61-62: MemoryMap::new() and the one to_mel_expr call of a compilation
LowerProgram(e) ==
    /\ status = "new"
    /\ Lower(e)

\* main.rs:72-86: compile_onto, disassemble, and the start of execute
Load ==
    /\ phase = "lowering"
    /\ status = "ok"
    /\ prog' = Flatten(out)
    /\ phase' = "running"
    /\ pc' = 0
    /\ stack' = <<>>
    /\ heap' = EmptyMap
    /\ loops' = <<>>
    /\ fault' = ""
    /\ trace' = <<>>
    /\ UNCHANGED <<lowerVars, counted, overflow_checks>>

\* the engine executes the instruction at pc
Exec ==
    /\ phase = "running"
    /\ ~AtLoopEnd
    /\ pc < Len(prog)
    /\ LET r == Effect(prog[pc + 1], pc, stack, heap, loops) IN
       IF r.fault # "" \/ OutOfRange(r.pc, r.loops)
       THEN /\ phase' = "Failed"
            /\ fault' = IF r.fault # "" THEN r.fault ELSE "MalformedProgram"
            /\ UNCHANGED <<pc, stack, heap, loops, trace>>
       ELSE /\ pc' = r.pc
            /\ stack' = r.stack
            /\ heap' = r.heap
            /\ loops' = r.loops
            /\ trace' = Append(trace, [pc |-> pc, top |-> IF stack = <<>> THEN Zero ELSE Top(stack),
                                       next |-> r.pc])
            /\ UNCHANGED <<phase, fault>>
    /\ UNCHANGED <<prog, lowerVars, counted, overflow_checks>>

\* the engine's repeat bookkeeping at the end of a body: next iteration, or leave
LoopEnd ==
    /\ phase = "running"
    /\ AtLoopEnd
    /\ IF Top(loops).left > 0
       THEN /\ pc' = Top(loops).first
            /\ loops' = [loops EXCEPT ![Len(loops)].left = @ - 1]
       ELSE /\ pc' = pc
            /\ loops' = Pop(loops, 1)
    /\ UNCHANGED <<phase, prog, stack, heap, fault, trace, lowerVars, counted,
                   overflow_checks>>

\* the end of the instruction sequence: Halted(final stack)
Halt ==
    /\ phase = "running"
    /\ loops = <<>>
    /\ pc = Len(prog)
    /\ phase' = "Halted"
    /\ UNCHANGED <<prog, pc, stack, heap, loops, fault, trace, lowerVars, counted,
                   overflow_checks>>

\* a lowered expression handed to count_insts
InitCount ==
    /\ out \in MelExprs
    /\ memory_store = EmptyMap
    /\ expr = NoExpr
    /\ pre = EmptyMap
    /\ status = "ok"
    /\ phase = "lowering"
    /\ prog = <<>>
    /\ pc = 0
    /\ stack = <<>>
    /\ heap = EmptyMap
    /\ loops = <<>>
    /\ fault = ""
    /\ trace = <<>>
    /\ counted = <<>>
    /\ overflow_checks = FALSE

\* count_insts(&out): it returns the count, or an addition in it panics
Count ==
    /\ counted = <<>>
    /\ status = "ok"
    /\ out # NoExpr
    /\ LET n == count_insts(out) IN
       IF n = Overflowed
       THEN status' = "panicked" /\ counted' = counted
       ELSE status' = status /\ counted' = <<n>>
    /\ UNCHANGED <<memory_store, expr, pre, out, phase, prog, pc, stack, heap, loops,
                   fault, trace, overflow_checks>>

SpecCount == InitCount /\ [][Count]_vars

\* either build, before its first to_mel_expr call
InitWide ==
    /\ Fresh
    /\ overflow_checks \in BOOLEAN

\* one expression is lowered, then its instructions are counted
NextWide ==
    \/ \E e \in WideExprs : LowerProgram(e)
    \/ Count

SpecWide == InitWide /\ [][NextWide]_vars

\* any sequence of to_mel_expr calls on one MemoryMap
Next == \E e \in Exprs : Lower(e)

Spec == Init /\ [][Next]_vars

\* one compilation and one run of its program
NextExec ==
    \/ \E e \in ExecExprs : LowerProgram(e)
    \/ Load
    \/ Exec
    \/ LoopEnd
    \/ Halt

SpecExec == Init /\ [][NextExec]_vars

\* the engine runs on until the run ends: execution is one synchronous loop
SpecExecFair == SpecExec /\ WF_vars(Exec \/ LoopEnd \/ Halt)

----------------------------------------------------------------------------
(* Properties of the lowering pass, under Spec *)

Store(loc) == MBuiltInImm("Store", loc)

\* C3: the Memory Map is injective: two distinct variable identifiers are
\* never mapped to the same heap slot.
C3_NoAliasing ==
    \A a \in DOMAIN memory_store : \A b \in DOMAIN memory_store :
        a # b => memory_store[a] # memory_store[b]

\* the last call lowered a read or a `set` of an identifier without a slot
UnboundAtTop ==
    \/ expr.tag = "Var" /\ expr.id \notin DOMAIN pre
    \/ /\ expr.tag = "Set"
       /\ to_mel_expr(pre, expr.body).ok
       /\ expr.id \notin DOMAIN to_mel_expr(pre, expr.body).mem

\* C4: lowering a read or a `set` of an identifier that has no entry in the
\* Memory Map ends in a fault returned to the caller, never in a panic.
C4_UnboundIsTypedFault == UnboundAtTop => status # "panicked"

\* C5: a lowered `if` is the five-element sequence [pred, Bez(count(true) + 1),
\* true, Jmp(count(false)), false], and its count is the three counts plus 2.
C5_IfLowering ==
    (expr.tag = "If" /\ status = "ok") =>
        LET p == to_mel_expr(memory_store, expr.pred).out
            t == to_mel_expr(memory_store, expr.on_true).out
            f == to_mel_expr(memory_store, expr.on_false).out
        IN  /\ out = MSeq(<<p, MBuiltInImm("Bez", count_insts(t) + 1), t,
                            MBuiltInImm("Jmp", count_insts(f)), f>>)
            /\ count_insts(out) = count_insts(p) + count_insts(t) + count_insts(f) + 2

C5_Witness ==
    /\ expr.tag = "If"
    /\ status = "ok"
    /\ expr.pred.tag = "Var"
    /\ expr.on_true.tag = "Set"
    /\ expr.on_false.tag = "Let"

\* the slot the Memory Map now holds for v (the map decides it; a binding that
\* was never reached has none, and its slot does not matter)
SlotNow(v) == IF v \in DOMAIN memory_store THEN memory_store[v] ELSE 0

RECURSIVE C6_Binds(_)
RECURSIVE C6_Body(_)

\* the first i bindings, left to right: enter the slot of vi, lower ei, store
C6_Binds(i) ==
    IF i = 0 THEN [mem |-> pre, out |-> <<>>, ok |-> TRUE]
    ELSE LET before == C6_Binds(i - 1)
             v == expr.binds[i][1]
             r == to_mel_expr(Insert(before.mem, v, SlotNow(v)), expr.binds[i][2])
         IN  [mem |-> r.mem,
              out |-> before.out \o <<r.out, Store(SlotNow(v))>>,
              ok |-> before.ok /\ r.ok]

\* then the first j body expressions, after all the stores
C6_Body(j) ==
    IF j = 0 THEN C6_Binds(Len(expr.binds))
    ELSE LET before == C6_Body(j - 1)
             r == to_mel_expr(before.mem, expr.exprs[j])
         IN  [mem |-> r.mem, out |-> Append(before.out, r.out), ok |-> before.ok /\ r.ok]

\* C6: a lowered `let` is [lower(e1), Store(slot v1), .., lower(en), Store(slot vn),
\* lower(b1), .., lower(bm)]; the slot of vi is in the Memory Map when ei, the
\* later binding expressions and the body are lowered, and the body is lowered
\* after all the bindings.
C6_LetLowering ==
    expr.tag = "Let" =>
        LET c == C6_Body(Len(expr.exprs)) IN
        /\ (status = "ok") = c.ok
        /\ c.ok => out = MSeq(c.out) /\ memory_store = c.mem

C6_Witness ==
    /\ expr.tag = "Let"
    /\ status = "ok"
    /\ pre = EmptyMap
    /\ Len(expr.binds) = 2
    /\ expr.binds[1][2].tag = "Var"
    /\ expr.binds[2][2].tag = "Var"
    /\ Len(expr.exprs) = 2

\* C8: the Memory Map starts empty, and no step removes an entry or changes
\* the slot of an identifier that has one.
C8_MapOnlyGrows ==
    /\ memory_store = EmptyMap
    /\ [][\A v \in DOMAIN memory_store :
            v \in DOMAIN memory_store' /\ memory_store'[v] = memory_store[v]]_vars

\* a `let` has bound again an identifier that had a slot, and a new one
C8_Witness ==
    /\ expr.tag = "Let"
    /\ status = "ok"
    /\ \E i \in 1..Len(expr.binds) : expr.binds[i][1] \in DOMAIN pre
    /\ DOMAIN memory_store # DOMAIN pre

\* C9: a lowered `set v body` is [lower(body), Store(slot of v)], and the Memory
\* Map after it is the Memory Map after lowering body alone.
C9_SetLowering ==
    expr.tag = "Set" =>
        LET b == to_mel_expr(pre, expr.body) IN
        /\ b.ok => memory_store = b.mem
        /\ (b.ok /\ expr.id \in DOMAIN b.mem) =>
                /\ status = "ok"
                /\ out = MSeq(<<b.out, Store(b.mem[expr.id])>>)

C9_Witness ==
    /\ expr.tag = "Set"
    /\ status = "ok"
    /\ expr.id \in DOMAIN pre
    /\ expr.body.tag = "Let"
    /\ memory_store # pre

\* C10: a lowered loop, hash or sign-check is one wrapper node with the
\* parameter unchanged and the children lowered in their order against the one
\* Memory Map; the count of a lowered loop is 1 + the count of its body.
C10_WrapperLowering ==
    /\ expr.tag \in {"Loop", "Hash"} =>
        LET b == to_mel_expr(pre, expr.body) IN
        /\ (status = "ok") = b.ok
        /\ b.ok =>
            /\ memory_store = b.mem
            /\ expr.tag = "Loop" =>
                /\ out = MLoop(expr.n, b.out)
                /\ count_insts(out) = 1 + count_insts(b.out)
            /\ expr.tag = "Hash" => out = MHash(expr.n, b.out)
    /\ expr.tag = "Sigeok" =>
        LET r1 == to_mel_expr(pre, expr.e1)
            r2 == to_mel_expr(r1.mem, expr.e2)
            r3 == to_mel_expr(r2.mem, expr.e3)
        IN  /\ (status = "ok") = (r1.ok /\ r2.ok /\ r3.ok)
            /\ (r1.ok /\ r2.ok /\ r3.ok) =>
                /\ memory_store = r3.mem
                /\ out = MSigeok(expr.n, r1.out, r2.out, r3.out)

C10_Witness ==
    /\ expr.tag = "Loop"
    /\ status = "ok"
    /\ expr.n = MaxLoop
    /\ expr.body.tag = "Let"
    /\ count_insts(out) = 3

\* the operators of spec.md 4.1 that take and leave values: arithmetic, logic, vectors
ValueOps == {"Vempty", "Vslice"} \cup UnaryOps \cup BinOps

RECURSIVE C11_Args(_)

\* the first i operands of the last call's built-in, lowered left to right
C11_Args(i) ==
    IF i = 0 THEN [mem |-> pre, out |-> <<>>, ok |-> TRUE]
    ELSE LET before == C11_Args(i - 1)
             r == to_mel_expr(before.mem, expr.args[i])
         IN  [mem |-> r.mem, out |-> Append(before.out, r.out), ok |-> before.ok /\ r.ok]

\* C11: lowering a built-in application (add, sub, mul, div, rem, not, and, or,
\* xor, vempty, vlen, vref, vpush, vappend, vslice) whose operands lower returns
\* the same operator applied to the lowered operands in the same order, against
\* the one Memory Map, and never aborts.
C11_BuiltInLowering ==
    (expr.tag = "BuiltIn" /\ expr.op \in ValueOps) =>
        LET c == C11_Args(Len(expr.args)) IN
        c.ok => /\ status = "ok"
                /\ out = MBuiltIn(expr.op, c.out)
                /\ memory_store = c.mem

----------------------------------------------------------------------------
(* The counting law, under SpecCount *)

IsLeaf(e) ==
    \/ e.tag = "Value"
    \/ e.tag = "BuiltIn" /\ (e.op \in ImmOps \/ e.op = "Vempty")

\* C2: count_insts(e) is the number of instructions of the flattened sequence
\* the encoder emits for e; a leaf counts 1 and the empty sequence 0.
C2_CountingLaw ==
    counted # <<>> =>
        /\ counted[1] = Len(Flatten(out))
        /\ IsLeaf(out) => counted[1] = 1
        /\ out = MSeq(<<>>) => counted[1] = 0

C2_Witness ==
    /\ counted = <<13>>
    /\ out.tag = "Sigeok"
    /\ out.e1.op = "Vslice"

----------------------------------------------------------------------------
(* The width of the counter, under SpecWide *)

RECURSIVE MathCount(_)
RECURSIVE MathSum(_, _)

\* the instruction count as an unbounded integer
MathSum(v, k) == IF k = 0 THEN 0 ELSE MathSum(v, k - 1) + MathCount(v[k])

MathCount(e) ==
    CASE e.tag = "Seq" -> MathSum(e.items, Len(e.items))
      [] e.tag \in {"Loop", "Hash"} -> 1 + MathCount(e.body)
      [] e.tag = "Sigeok" -> 1 + MathCount(e.e1) + MathCount(e.e2) + MathCount(e.e3)
      [] e.tag = "Value" -> 1
      [] e.tag = "BuiltIn" -> 1 + MathSum(e.args, Len(e.args))

\* C12: the 16-bit arithmetic of the instruction counter never wraps (and never
\* aborts): count_insts of a lowered expression is its instruction count as an
\* unbounded integer, and in a lowered `if` the Bez operand is the count of the
\* true branch plus 1 and the Jmp operand the count of the false branch, also
\* for a branch or a sequence of 2^16 - 1 or more instructions.
C12_CountNeverWraps ==
    /\ status # "panicked"
    /\ counted # <<>> => counted[1] = MathCount(out)
    /\ (expr.tag = "If" /\ status = "ok") =>
            /\ out.items[2].n = MathCount(out.items[3]) + 1
            /\ out.items[4].n = MathCount(out.items[5])

----------------------------------------------------------------------------
(* Properties of the executed program, under SpecExec *)

RECURSIVE SrcCount(_)
RECURSIVE SrcCountAll(_, _)
RECURSIVE SrcBound(_)
RECURSIVE SrcBoundAll(_, _)
RECURSIVE Sites(_, _, _)
RECURSIVE SitesAll(_, _, _, _)
RECURSIVE Straight(_)

\* a `let` as the list of its parts in emission order; a binding carries its store
LetItems(e) ==
    [i \in 1..Len(e.binds) |-> [e |-> e.binds[i][2], extra |-> 1]]
        \o [j \in 1..Len(e.exprs) |-> [e |-> e.exprs[j], extra |-> 0]]
ArgItems(args) == [i \in 1..Len(args) |-> [e |-> args[i], extra |-> 0]]

\* the number of instructions spec.md 4.2 gives to an Unrolled Expression
SrcCountAll(items, k) ==
    IF k = 0 THEN 0
    ELSE SrcCountAll(items, k - 1) + SrcCount(items[k].e) + items[k].extra

SrcCount(e) ==
    CASE e.tag \in {"Value", "Var"} -> 1
      [] e.tag = "BuiltIn" -> SrcCountAll(ArgItems(e.args), Len(e.args)) + 1
      [] e.tag = "Set" -> SrcCount(e.body) + 1
      [] e.tag = "If" -> SrcCount(e.pred) + SrcCount(e.on_true) + SrcCount(e.on_false) + 2
      [] e.tag = "Let" -> SrcCountAll(LetItems(e), Len(LetItems(e)))
      [] e.tag \in {"Loop", "Hash"} -> SrcCount(e.body) + 1
      [] e.tag = "Sigeok" -> SrcCount(e.e1) + SrcCount(e.e2) + SrcCount(e.e3) + 1

\* the static bound on executed instructions: a repeat multiplies its body
SrcBoundAll(items, k) ==
    IF k = 0 THEN 0
    ELSE SrcBoundAll(items, k - 1) + SrcBound(items[k].e) + items[k].extra

SrcBound(e) ==
    CASE e.tag \in {"Value", "Var"} -> 1
      [] e.tag = "BuiltIn" -> SrcBoundAll(ArgItems(e.args), Len(e.args)) + 1
      [] e.tag = "Set" -> SrcBound(e.body) + 1
      [] e.tag = "If" -> SrcBound(e.pred) + SrcBound(e.on_true) + SrcBound(e.on_false) + 2
      [] e.tag = "Let" -> SrcBoundAll(LetItems(e), Len(LetItems(e)))
      [] e.tag = "Loop" -> 1 + e.n * SrcBound(e.body)
      [] e.tag = "Hash" -> SrcBound(e.body) + 1
      [] e.tag = "Sigeok" -> SrcBound(e.e1) + SrcBound(e.e2) + SrcBound(e.e3) + 1

\* no `if` and no repeat inside: every instruction runs once, in order
Straight(e) ==
    CASE e.tag \in {"Value", "Var"} -> TRUE
      [] e.tag = "BuiltIn" -> \A i \in 1..Len(e.args) : Straight(e.args[i])
      [] e.tag = "Set" -> Straight(e.body)
      [] e.tag \in {"If", "Loop"} -> FALSE
      [] e.tag = "Let" -> \A i \in 1..Len(LetItems(e)) : Straight(LetItems(e)[i].e)
      [] e.tag = "Hash" -> Straight(e.body)
      [] e.tag = "Sigeok" -> Straight(e.e1) /\ Straight(e.e2) /\ Straight(e.e3)

\* where the `if`s of e lie when e starts at instruction index base: the Bez, the
\* Jmp and the last instruction of the false branch; the true branch is
\* bez+1..jmp-1 and the false branch jmp+1..last
SitesAll(items, k, base, inLoop) ==
    IF k = 0 THEN {}
    ELSE SitesAll(items, k - 1, base, inLoop)
            \cup Sites(items[k].e, base + SrcCountAll(items, k - 1), inLoop)

Sites(e, base, inLoop) ==
    CASE e.tag \in {"Value", "Var"} -> {}
      [] e.tag = "BuiltIn" -> SitesAll(ArgItems(e.args), Len(e.args), base, inLoop)
      [] e.tag = "Set" -> Sites(e.body, base, inLoop)
      [] e.tag = "If" ->
            LET bez == base + SrcCount(e.pred)
                jmp == bez + SrcCount(e.on_true) + 1
            IN  {[bez |-> bez, jmp |-> jmp, last |-> jmp + SrcCount(e.on_false),
                  tStraight |-> Straight(e.on_true), fStraight |-> Straight(e.on_false),
                  inLoop |-> inLoop]}
                \cup Sites(e.pred, base, inLoop)
                \cup Sites(e.on_true, bez + 1, inLoop)
                \cup Sites(e.on_false, jmp + 1, inLoop)
      [] e.tag = "Let" -> SitesAll(LetItems(e), Len(LetItems(e)), base, inLoop)
      [] e.tag = "Loop" -> Sites(e.body, base + 1, TRUE)
      [] e.tag = "Hash" -> Sites(e.body, base, inLoop)
      [] e.tag = "Sigeok" ->
            SitesAll(ArgItems(<<e.e1, e.e2, e.e3>>), 3, base, inLoop)

TrueBranch(s) == (s.bez + 1)..(s.jmp - 1)
FalseBranch(s) == (s.jmp + 1)..s.last
Executed == {trace[k].pc : k \in 1..Len(trace)}
Loaded == phase \in {"running", "Halted", "Failed"}

\* what holds of one `if` at the k-th executed instruction
IfStep(s, k) ==
    LET t == trace[k] IN
    \* the branch: on 0 to the first instruction of the false branch, else on
    /\ t.pc = s.bez => t.next = IF t.top = Zero THEN s.jmp + 1 ELSE s.bez + 1
    \* the jump that ends the true branch: to the first instruction after the false branch
    /\ t.pc = s.jmp => t.next = s.last + 1
    \* a branch is entered only from its Bez, on its value
    /\ t.pc \in TrueBranch(s) =>
            /\ k > 1
            /\ \/ trace[k - 1].pc \in TrueBranch(s)
               \/ trace[k - 1].pc = s.bez /\ trace[k - 1].top # Zero
    /\ t.pc \in FalseBranch(s) =>
            /\ k > 1
            /\ \/ trace[k - 1].pc \in FalseBranch(s)
               \/ trace[k - 1].pc = s.bez /\ trace[k - 1].top = Zero
    \* a straight-line branch of a run that halted ran whole, in order
    /\ (phase = "Halted" /\ t.pc = s.bez /\ t.top = Zero /\ s.fStraight) =>
            \A j \in 1..(s.last - s.jmp) :
                k + j <= Len(trace) /\ trace[k + j].pc = s.jmp + j
    /\ (phase = "Halted" /\ t.pc = s.bez /\ t.top # Zero /\ s.tStraight) =>
            \A j \in 1..(s.jmp - s.bez) :
                k + j <= Len(trace) /\ trace[k + j].pc = s.bez + j

\* spec.md 8: (if 0 (set x 1) (set x 2)) under a binding of x
IfExample == ULet(<<<<0, V0>>>>, <<UIf(V0, USet(0, V1), USet(0, V2))>>)

\* C1 (as amended): for every lowered `if`: on 0 execution continues at the
\* first instruction of the false branch, on any other value at the first of
\* the true branch; a branch is entered in no other way, so none of the other
\* branch's instructions execute; the Jmp that ends the true branch continues
\* at the first instruction after the false branch; a taken branch without
\* nested `if` or repeat executes whole when the run halts.
C1_IfBranches ==
    Loaded =>
        /\ \A s \in Sites(expr, 0, FALSE) :
            /\ prog[s.bez + 1].op = "Bez"
            /\ prog[s.jmp + 1].op = "Jmp"
            /\ \A k \in 1..Len(trace) : IfStep(s, k)
        /\ (phase = "Halted" /\ expr = IfExample) => HeapAt(heap, 0) = IntV(2)

C1_Witness ==
    /\ phase = "Halted"
    /\ expr = IfExample
    /\ HeapAt(heap, 0) = IntV(2)
    /\ Executed = {0, 1, 2, 3, 7, 8}

\* C1 as stated: on 0 every instruction of the false branch executes and none
\* of the true branch; on any other value every instruction of the true branch
\* and none of the false branch (for an `if` outside a repeat, in a run that halted).
C1_EveryInstructionOfTheBranch ==
    phase = "Halted" =>
        \A s \in Sites(expr, 0, FALSE) :
            \A k \in 1..Len(trace) :
                (~s.inLoop /\ trace[k].pc = s.bez) =>
                    IF trace[k].top = Zero
                    THEN FalseBranch(s) \subseteq Executed /\ TrueBranch(s) \cap Executed = {}
                    ELSE TrueBranch(s) \subseteq Executed /\ FalseBranch(s) \cap Executed = {}

Done == phase \in {"Halted", "Failed"}

\* C7: a run executes at most the statically bounded number of instructions,
\* no instruction moves the program counter backwards, a running engine can
\* always take a step, and every run ends Halted or Failed.
C7_Terminates ==
    /\ [](Loaded =>
            /\ Len(trace) <= SrcBound(expr)
            /\ \A k \in 1..Len(trace) : trace[k].next > trace[k].pc
            /\ phase = "running" => ENABLED (Exec \/ LoopEnd \/ Halt))
    /\ (phase = "running" ~> Done)

\* a run with a repeat and an `if` in it used the whole bound and halted
C7_Witness ==
    /\ phase = "Halted"
    /\ \E i \in 1..Len(prog) : prog[i].op = "Loop" /\ prog[i].n = MaxLoop
    /\ Len(trace) > Len(prog)

====
